---- MODULE Spec2Model ----
(***************************************************************************)
(* Model of the bpe-tokenizer crate (src/src/tokenizer.rs,                 *)
(* src/src/constants.rs).                                                  *)
(*                                                                         *)
(* A character is a one-element TLA+ string; a Rust String / &str is a     *)
(* sequence of characters; a token is a String; a Vec<String> is a         *)
(* sequence of tokens.  Characters outside ASCII are written by their code *)
(* point: "U2581" is U+2581.                                               *)
(*                                                                         *)
(* The store (BytePairEncoder.tokens) is a function from its keys to their *)
(* scores.  A call is one step from pc = "idle" to pc = "done"; Return     *)
(* hands the result to the caller and goes back to "idle".                 *)
(***************************************************************************)
EXTENDS Integers, Sequences, FiniteSets, TLC

VARIABLES tokens, pc, call, arg, sel, outcome, ret, iters, threads, stack

vars == <<tokens, pc, call, arg, sel, outcome, ret, iters, threads, stack>>

(***************************************************************************)
(* Bounds                                                                  *)
(***************************************************************************)
\* word-level specification
MaxKeyLen == 2
MaxVocabSize == 2
MaxWordLen == 3
\* text-level specification
MaxTextLen == 3
MaxLines == 2
\* threads that share one encoder
NThreads == 2
MaxCaseLen == 4

Scores == {-1, 0, 1}

(***************************************************************************)
(* Generic helpers                                                         *)
(***************************************************************************)
Max(S) == CHOOSE x \in S : \A y \in S : y <= x
Min(S) == CHOOSE x \in S : \A y \in S : x <= y

\* all strings over the characters C of length lo..hi
Strings(C, lo, hi) == UNION {[1..k -> C] : k \in lo..hi}

RECURSIVE SubsetsUpTo(_, _)
\* the subsets of S with at most k elements
SubsetsUpTo(S, k) ==
  IF k = 0 THEN {{}}
  ELSE LET P == SubsetsUpTo(S, k - 1)
       IN P \cup {p \cup {x} : p \in P, x \in S}

\* the stores with at most k keys, all taken from K
Stores(K, k) == UNION {[D -> Scores] : D \in SubsetsUpTo(K, k)}

(***************************************************************************)
(* constants.rs                                                            *)
(***************************************************************************)
\* the string literal of constants.rs line 2 is the three characters
\* U+201A U+00F1 U+00C5
WORD_BREAK_CHAR == <<"U201A", "U00F1", "U00C5">>
SENTENCE_START_TOKEN == <<"<", "s", ">">>
SENTENCE_END_TOKEN == <<"<", "/", "s", ">">>
UNKNOWN_TOKEN == <<"<", "u", "n", "k", ">">>

\* isize::MIN of a 32-bit target
isize_MIN == -2147483647 - 1

(***************************************************************************)
(* Results of a computation that may panic                                 *)
(***************************************************************************)
Panic == [ok |-> FALSE, val |-> <<>>]
Ok(v) == [ok |-> TRUE, val |-> v]

\* word[start..end] : panics unless start <= end <= word.len()
slice(word, start, end) ==
  IF start <= end /\ end <= Len(word)
  THEN Ok(SubSeq(word, start + 1, end))
  ELSE Panic

(***************************************************************************)
(* tokenize_word                                                           *)
(***************************************************************************)
NoMatch == [found |-> FALSE, candidate |-> <<>>, start |-> 0, end |-> 0]
Match(c, s, e) == [found |-> TRUE, candidate |-> c, start |-> s, end |-> e]

\* variant: the inner loop runs one start offset too far
last_start_one_more(word, len) == Len(word) - len + 1

\* the last start offset of the inner loop, word.len() - len
last_start(word, len) == Len(word) - len

RECURSIVE matches_from_above_min(_, _, _, _)
\* variant: a key whose score is isize::MIN is taken as absent
matches_from_above_min(tks, word, len, start) ==
  IF start > last_start(word, len) THEN Ok(<<>>)
  ELSE LET c == slice(word, start, start + len)
       IN IF ~c.ok THEN Panic
          ELSE LET rest == matches_from_above_min(tks, word, len, start + 1)
               IN IF ~rest.ok THEN Panic
                  ELSE IF c.val \in DOMAIN tks /\ tks[c.val] # isize_MIN
                       THEN Ok(<<Match(c.val, start, start + len)>> \o rest.val)
                       ELSE rest

RECURSIVE matches_from(_, _, _, _)
\* the inner loop (lines 482-492) from start offset `start` on: the matches
\* pushed, in the order pushed
matches_from(tks, word, len, start) ==
  IF start > last_start(word, len) THEN Ok(<<>>)
  ELSE LET c == slice(word, start, start + len)
       IN IF ~c.ok THEN Panic
          ELSE LET rest == matches_from(tks, word, len, start + 1)
               IN IF ~rest.ok THEN Panic
                  ELSE IF c.val \in DOMAIN tks
                       THEN Ok(<<Match(c.val, start, start + len)>> \o rest.val)
                       ELSE rest

\* variant: the scan of start offsets leaves out offset 0
matches_after_first(tks, word, len) == matches_from(tks, word, len, 1)

matches(tks, word, len) == matches_from(tks, word, len, 0)

\* the key of max_by_key (line 499)
score_key(tks, candidate) ==
  IF candidate \in DOMAIN tks THEN tks[candidate] ELSE isize_MIN

\* variant: the match with the lowest score is taken (min_by_key)
min_by_key(tks, ms) ==
  IF ms = <<>> THEN Panic
  ELSE LET worst == Min({score_key(tks, ms[i].candidate) : i \in 1..Len(ms)})
           last == Max({i \in 1..Len(ms) : score_key(tks, ms[i].candidate) = worst})
       IN Ok(ms[last])

\* variant: the first element with the maximum key is taken
max_by_key_first(tks, ms) ==
  IF ms = <<>> THEN Panic
  ELSE LET best == Max({score_key(tks, ms[i].candidate) : i \in 1..Len(ms)})
           first == Min({i \in 1..Len(ms) : score_key(tks, ms[i].candidate) = best})
       IN Ok(ms[first])

\* Iterator::max_by_key: the last element with the maximum key; None
\* (and unwrap panics) when the sequence is empty
max_by_key(tks, ms) ==
  IF ms = <<>> THEN Panic
  ELSE LET best == Max({score_key(tks, ms[i].candidate) : i \in 1..Len(ms)})
           last == Max({i \in 1..Len(ms) : score_key(tks, ms[i].candidate) = best})
       IN Ok(ms[last])

RECURSIVE select_from(_, _, _)
\* the outer loop (lines 479-501) from length `len` down: the match chosen
\* at the first length that has matches, NoMatch when the loop runs out
select_from(tks, word, len) ==
  IF len < 1 THEN Ok(NoMatch)
  ELSE LET ms == matches(tks, word, len)
       IN IF ~ms.ok THEN Panic
          ELSE IF ms.val # <<>> THEN max_by_key(tks, ms.val)
          ELSE select_from(tks, word, len - 1)

RECURSIVE select_up(_, _, _)
\* variant: the length scan runs from the shortest length up
select_up(tks, word, len) ==
  IF len > Len(word) THEN Ok(NoMatch)
  ELSE LET ms == matches(tks, word, len)
       IN IF ~ms.ok THEN Panic
          ELSE IF ms.val # <<>> THEN max_by_key(tks, ms.val)
          ELSE select_up(tks, word, len + 1)

select_shortest_first(tks, word) == select_up(tks, word, 1)

\* variant: the length scan leaves out the full length, (1..word.len()).rev()
select_below_full(tks, word) == select_from(tks, word, Len(word) - 1)

select(tks, word) == select_from(tks, word, Len(word))

\* variant: the parts are put together in the wrong order
concat3_swapped(left_tokens, middle, right_tokens) ==
  right_tokens \o middle \o left_tokens

\* [left_tokens, middle, right_tokens].concat()
concat3(left_tokens, middle, right_tokens) ==
  left_tokens \o middle \o right_tokens

\* variant: an unmatched word gives no token
unknown_dropped(text) == <<>>

\* variant: one unknown marker for each character of the unmatched word
unknown_per_char(text) == [i \in 1..Len(text) |-> UNKNOWN_TOKEN]

\* vec![UNKNOWN_TOKEN.to_string()] (line 520)
unknown(text) == <<UNKNOWN_TOKEN>>

RECURSIVE tokenize_word_no_base_case(_, _)
\* variant: the empty text is not returned early
tokenize_word_no_base_case(tks, text) ==
  LET m == select(tks, text)
  IN IF ~m.ok THEN Panic
     ELSE IF ~m.val.found THEN Ok(unknown(text))
     ELSE LET left == slice(text, 0, m.val.start)
              right == slice(text, m.val.end, Len(text))
          IN IF ~left.ok \/ ~right.ok THEN Panic
             ELSE LET left_tokens == tokenize_word_no_base_case(tks, left.val)
                      right_tokens == tokenize_word_no_base_case(tks, right.val)
                  IN IF ~left_tokens.ok \/ ~right_tokens.ok THEN Panic
                     ELSE Ok(concat3(left_tokens.val,
                                     <<m.val.candidate>>,
                                     right_tokens.val))

RECURSIVE tokenize_word(_, _)
tokenize_word(tks, text) ==
  IF text = <<>> THEN Ok(<<>>)
  ELSE LET m == select(tks, text)
       IN IF ~m.ok THEN Panic
          ELSE IF ~m.val.found THEN Ok(unknown(text))
          ELSE LET left == slice(text, 0, m.val.start)
                   right == slice(text, m.val.end, Len(text))
               IN IF ~left.ok \/ ~right.ok THEN Panic
                  ELSE LET left_tokens == tokenize_word(tks, left.val)
                           right_tokens == tokenize_word(tks, right.val)
                       IN IF ~left_tokens.ok \/ ~right_tokens.ok THEN Panic
                          ELSE Ok(concat3(left_tokens.val,
                                          <<m.val.candidate>>,
                                          right_tokens.val))

(***************************************************************************)
(* Text segmentation and case folding (unicode_segmentation, str), on the  *)
(* characters of the model: lower-case and upper-case letters, the space   *)
(* (Sentence_Break = Sp, Word_Break = WSegSpace), "!" (Sentence_Break =    *)
(* STerm) and "." (Sentence_Break = ATerm, Word_Break = MidNumLet); any    *)
(* other character, such as "<", "/" and ">", is of the class Other for    *)
(* both breaks.  "U1D400" stands for U+1D400, MATHEMATICAL BOLD CAPITAL A: *)
(* an upper-case letter that has no lower-case form.                       *)
(***************************************************************************)
Lower == {"a", "b", "s"}
Upper == {"A"}
MathUpper == {"U1D400"}
Sp == {" "}
STerm == {"!"}
ATerm == {"."}
MidNumLet == {"."}

is_alphanumeric(c) == c \in Lower \cup Upper \cup MathUpper
has_alphanumeric(s) == \E i \in 1..Len(s) : is_alphanumeric(s[i])

RECURSIVE split_bounds(_, _, _)
\* the pieces of text from index i on, B being the indexes that start a piece
split_bounds(text, B, i) ==
  IF i > Len(text) THEN <<>>
  ELSE LET nexts == {j \in B : j > i}
           e == IF nexts = {} THEN Len(text) + 1 ELSE Min(nexts)
       IN <<SubSeq(text, i, e - 1)>> \o split_bounds(text, B, e)

RECURSIVE last_term(_, _)
\* text[1..i] ends with (STerm | ATerm) Sp*: the index of that terminator,
\* 0 if it does not
last_term(text, i) ==
  IF i = 0 THEN 0
  ELSE IF text[i] \in STerm \cup ATerm THEN i
  ELSE IF text[i] \in Sp THEN last_term(text, i - 1)
  ELSE 0

RECURSIVE lower_ahead(_, _)
\* UAX #29 rule SB8: from index j on, a lower-case letter comes before any
\* other letter and before any terminator
lower_ahead(text, j) ==
  IF j > Len(text) THEN FALSE
  ELSE IF text[j] \in Lower THEN TRUE
  ELSE IF text[j] \in Upper \cup MathUpper \cup STerm \cup ATerm THEN FALSE
  ELSE lower_ahead(text, j + 1)

\* UAX #29 rule SB7: a letter, the ATerm at index t, an upper-case letter
letter_aterm_upper(text, t) ==
  /\ t >= 2 /\ t < Len(text)
  /\ is_alphanumeric(text[t - 1])
  /\ text[t + 1] \in Upper \cup MathUpper

\* UAX #29 sentence boundary before index j (rules SB7, SB8, SB8a, SB9,
\* SB10, SB11)
sentence_bound(text, j) ==
  /\ text[j] \notin Sp \cup STerm \cup ATerm
  /\ last_term(text, j - 1) > 0
  /\ text[last_term(text, j - 1)] \in ATerm =>
       /\ ~(last_term(text, j - 1) = j - 1 /\ letter_aterm_upper(text, j - 1))
       /\ ~lower_ahead(text, j)

\* UAX #29 rules WB6 and WB7: the MidNumLet at index i stands between two
\* letters
mid_letter(text, i) ==
  /\ i >= 2 /\ i < Len(text)
  /\ text[i] \in MidNumLet
  /\ is_alphanumeric(text[i - 1])
  /\ is_alphanumeric(text[i + 1])

\* UAX #29 word boundary before index j (rules WB3d, WB5, WB6, WB7, WB999)
word_bound(text, j) ==
  /\ ~(is_alphanumeric(text[j - 1]) /\ is_alphanumeric(text[j]))
  /\ ~(text[j - 1] \in Sp /\ text[j] \in Sp)
  /\ ~mid_letter(text, j)
  /\ ~mid_letter(text, j - 1)

\* variant: a splitter that gives one empty piece for the empty text
sentences_with_empty(text) ==
  IF text = <<>> THEN << <<>> >>
  ELSE SelectSeq(split_bounds(text, {j \in 2..Len(text) : sentence_bound(text, j)}, 1),
                 has_alphanumeric)

\* UnicodeSegmentation::unicode_sentences: the sentences that hold an
\* alphanumeric character
unicode_sentences(text) ==
  SelectSeq(split_bounds(text, {j \in 2..Len(text) : sentence_bound(text, j)}, 1),
            has_alphanumeric)

\* UnicodeSegmentation::unicode_words: the words that hold an alphanumeric
\* character
unicode_words(text) ==
  SelectSeq(split_bounds(text, {j \in 2..Len(text) : word_bound(text, j)}, 1),
            has_alphanumeric)

\* char::to_lowercase
lowercase_char(c) == IF c = "A" THEN "a" ELSE c

\* variant: only the first character is lower-cased
to_lowercase_first_char(word) ==
  [i \in 1..Len(word) |-> IF i = 1 THEN lowercase_char(word[i]) ELSE word[i]]

\* str::to_lowercase
to_lowercase(word) == [i \in 1..Len(word) |-> lowercase_char(word[i])]

(***************************************************************************)
(* tokenize_with_sentence_markers_iter and the text pipeline; an iterator  *)
(* is modelled by the sequence of the items it yields                      *)
(***************************************************************************)
\* variant: the word is not lower-cased
prefixed_as_written(word) == WORD_BREAK_CHAR \o word

\* format!("{}{}", WORD_BREAK_CHAR, word.to_lowercase())
prefixed(word) == WORD_BREAK_CHAR \o to_lowercase(word)

RECURSIVE flat_map_words_in_pairs(_, _)
\* variant: two neighbouring words are tokenized as one text
flat_map_words_in_pairs(tks, words) ==
  IF words = <<>> THEN Ok(<<>>)
  ELSE IF Len(words) = 1 THEN tokenize_word(tks, prefixed(words[1]))
  ELSE LET h == tokenize_word(tks, prefixed(words[1]) \o prefixed(words[2]))
           t == flat_map_words_in_pairs(tks, Tail(Tail(words)))
       IN IF ~h.ok \/ ~t.ok THEN Panic ELSE Ok(h.val \o t.val)

RECURSIVE flat_map_words(_, _)
\* words.flat_map(|word| self.tokenize_word(..))
flat_map_words(tks, words) ==
  IF words = <<>> THEN Ok(<<>>)
  ELSE LET h == tokenize_word(tks, prefixed(Head(words)))
           t == flat_map_words(tks, Tail(words))
       IN IF ~h.ok \/ ~t.ok THEN Panic ELSE Ok(h.val \o t.val)

\* variant: the sentence is not closed by the end marker
markers_start_only(tks, sentence) ==
  LET body == flat_map_words(tks, unicode_words(sentence))
  IN IF ~body.ok THEN Panic ELSE Ok(<<SENTENCE_START_TOKEN>> \o body.val)

tokenize_with_sentence_markers_iter(tks, sentence) ==
  LET body == flat_map_words(tks, unicode_words(sentence))
  IN IF ~body.ok THEN Panic
     ELSE Ok(<<SENTENCE_START_TOKEN>> \o body.val \o <<SENTENCE_END_TOKEN>>)

RECURSIVE map_sentences(_, _)
\* sentences.map(|sentence| self.tokenize_with_sentence_markers_iter(sentence))
map_sentences(tks, sentences) ==
  IF sentences = <<>> THEN Ok(<<>>)
  ELSE LET h == tokenize_with_sentence_markers_iter(tks, Head(sentences))
           t == map_sentences(tks, Tail(sentences))
       IN IF ~h.ok \/ ~t.ok THEN Panic ELSE Ok(<<h.val>> \o t.val)

tokenize_sentences_iter(tks, text) == map_sentences(tks, unicode_sentences(text))

\* variant: only the first sentence is taken
first_only(ss) == IF ss = <<>> THEN <<>> ELSE Head(ss)

RECURSIVE flatten(_)
\* Iterator::flatten
flatten(ss) == IF ss = <<>> THEN <<>> ELSE Head(ss) \o flatten(Tail(ss))

tokenize_iter(tks, text) ==
  LET it == tokenize_sentences_iter(tks, text)
  IN IF ~it.ok THEN Panic ELSE Ok(flatten(it.val))

\* .map(|sentence_iter| sentence_iter.collect()).collect()
tokenize_sentences(tks, text) == tokenize_sentences_iter(tks, text)

\* self.tokenize_iter(text).collect()
tokenize(tks, text) == tokenize_iter(tks, text)

(***************************************************************************)
(* The iterators, one next() at a time.  The iterator that                 *)
(* tokenize_with_sentence_markers_iter returns is once(<s>) chained with   *)
(* the flat_map over the words chained with once(</s>): phase says which   *)
(* link is being read, words are the words not yet taken, buf what is left *)
(* of the Vec that tokenize_word gave for the last word taken.             *)
(***************************************************************************)
new_inner(sentence) ==
  [phase |-> "start", words |-> unicode_words(sentence), buf |-> <<>>]

\* what a call of next() gives: a panic, Some(item) or None, and the iterator
\* after the call
NextPanic(it) == [ok |-> FALSE, some |-> FALSE, item |-> <<>>, it |-> it]
NextSome(item, it) == [ok |-> TRUE, some |-> TRUE, item |-> item, it |-> it]
NextNone(it) == [ok |-> TRUE, some |-> FALSE, item |-> <<>>, it |-> it]

RECURSIVE inner_next_first_of_word(_, _)
\* variant: a word taken replaces what is left of the word before
inner_next_first_of_word(tks, it) ==
  IF it.phase = "start"
  THEN NextSome(SENTENCE_START_TOKEN, [it EXCEPT !.phase = "words"])
  ELSE IF it.phase = "words"
  THEN IF it.words # <<>>
       THEN LET r == tokenize_word(tks, prefixed(Head(it.words)))
            IN IF ~r.ok THEN NextPanic(it)
               ELSE IF r.val = <<>>
               THEN inner_next_first_of_word(tks, [it EXCEPT !.words = Tail(it.words)])
               ELSE NextSome(Head(r.val),
                             [it EXCEPT !.words = Tail(it.words), !.buf = Tail(r.val)])
       ELSE NextSome(SENTENCE_END_TOKEN, [it EXCEPT !.phase = "done"])
  ELSE NextNone(it)

RECURSIVE inner_next(_, _)
\* Chain::next over once, FlatMap and once (lines 437-441)
inner_next(tks, it) ==
  IF it.phase = "start"
  THEN NextSome(SENTENCE_START_TOKEN, [it EXCEPT !.phase = "words"])
  ELSE IF it.phase = "words"
  THEN IF it.buf # <<>>
       THEN NextSome(Head(it.buf), [it EXCEPT !.buf = Tail(it.buf)])
       ELSE IF it.words # <<>>
       THEN LET r == tokenize_word(tks, prefixed(Head(it.words)))
            IN IF ~r.ok THEN NextPanic(it)
               ELSE inner_next(tks, [it EXCEPT !.words = Tail(it.words), !.buf = r.val])
       ELSE NextSome(SENTENCE_END_TOKEN, [it EXCEPT !.phase = "done"])
  ELSE NextNone(it)

\* the state of the sentence iterators: outer are the sentences that
\* unicode_sentences().map(..) has not yielded yet, inner the iterators it
\* yielded, out what has been taken from each, finished whether it gave None
NoIters == [outer |-> <<>>, inner |-> <<>>, out |-> <<>>, finished |-> <<>>]
sentences_iter(text) ==
  [outer |-> unicode_sentences(text), inner |-> <<>>, out |-> <<>>, finished |-> <<>>]

\* Map::next of tokenize_sentences_iter (lines 302-303) on a sentence left
outer_next(its) ==
  [outer |-> Tail(its.outer),
   inner |-> Append(its.inner, new_inner(Head(its.outer))),
   out |-> Append(its.out, <<>>),
   finished |-> Append(its.finished, FALSE)]

RECURSIVE flatten_next(_, _)
\* Flatten::next of tokenize_iter (line 337): the front iterator is the last
\* of inner while it is not finished
flatten_next(tks, its) ==
  LET n == Len(its.inner)
  IN IF n > 0 /\ ~its.finished[n]
     THEN LET r == inner_next(tks, its.inner[n])
          IN IF ~r.ok THEN NextPanic(its)
             ELSE IF r.some
             THEN NextSome(r.item, [its EXCEPT !.inner[n] = r.it])
             ELSE flatten_next(tks, [its EXCEPT !.inner[n] = r.it, !.finished[n] = TRUE])
     ELSE IF its.outer # <<>> THEN flatten_next(tks, outer_next(its))
     ELSE NextNone(its)

(***************************************************************************)
(* Calls run by several threads on one encoder, one activation of          *)
(* tokenize_word at a time.  The work of a call is, for each sentence, the *)
(* tokens already produced and the texts whose activation is still to run, *)
(* in the order of the result; the activations run left to right, as the   *)
(* recursion and the iterators run them.                                   *)
(***************************************************************************)
Threads == 1..NThreads

Todo(text) == [todo |-> TRUE, s |-> text]
Tok(token) == [todo |-> FALSE, s |-> token]

\* variant: a text that no key matches is remembered in the store
activation_memo(tks, text) ==
  IF text = <<>> THEN [ok |-> TRUE, val |-> <<>>, tokens |-> tks]
  ELSE LET m == select(tks, text)
       IN IF ~m.ok THEN [ok |-> FALSE, val |-> <<>>, tokens |-> tks]
          ELSE IF ~m.val.found
          THEN [ok |-> TRUE,
                val |-> [i \in 1..Len(unknown(text)) |-> Tok(unknown(text)[i])],
                tokens |-> [k \in DOMAIN tks \cup {text} |->
                              IF k \in DOMAIN tks THEN tks[k] ELSE 0]]
          ELSE LET left == slice(text, 0, m.val.start)
                   right == slice(text, m.val.end, Len(text))
               IN IF ~left.ok \/ ~right.ok
                  THEN [ok |-> FALSE, val |-> <<>>, tokens |-> tks]
                  ELSE [ok |-> TRUE,
                        val |-> concat3(<<Todo(left.val)>>,
                                        <<Tok(m.val.candidate)>>,
                                        <<Todo(right.val)>>),
                        tokens |-> tks]

\* one activation of tokenize_word(&self, text) up to its recursive calls:
\* what it puts in the place of text, and the store as it leaves it (self
\* is a shared borrow and the body only calls contains_key and index)
activation(tks, text) ==
  IF text = <<>> THEN [ok |-> TRUE, val |-> <<>>, tokens |-> tks]
  ELSE LET m == select(tks, text)
       IN IF ~m.ok THEN [ok |-> FALSE, val |-> <<>>, tokens |-> tks]
          ELSE IF ~m.val.found
          THEN [ok |-> TRUE,
                val |-> [i \in 1..Len(unknown(text)) |-> Tok(unknown(text)[i])],
                tokens |-> tks]
          ELSE LET left == slice(text, 0, m.val.start)
                   right == slice(text, m.val.end, Len(text))
               IN IF ~left.ok \/ ~right.ok
                  THEN [ok |-> FALSE, val |-> <<>>, tokens |-> tks]
                  ELSE [ok |-> TRUE,
                        val |-> concat3(<<Todo(left.val)>>,
                                        <<Tok(m.val.candidate)>>,
                                        <<Todo(right.val)>>),
                        tokens |-> tks]

\* the work of a sentence before any activation has run
sentence_work(sentence) ==
  LET words == unicode_words(sentence)
  IN <<Tok(SENTENCE_START_TOKEN)>>
       \o [j \in 1..Len(words) |-> Todo(prefixed(words[j]))]
       \o <<Tok(SENTENCE_END_TOKEN)>>

\* the work of a call before any activation has run
start_work(f, x) ==
  IF f = "tokenize_word" THEN <<<<Todo(x)>>>>
  ELSE LET sentences == unicode_sentences(x)
       IN [i \in 1..Len(sentences) |-> sentence_work(sentences[i])]

has_todo(items) == \E j \in 1..Len(items) : items[j].todo
first_todo(items) == Min({j \in 1..Len(items) : items[j].todo})
all_done(work) == \A i \in 1..Len(work) : ~has_todo(work[i])
\* the first sentence that still has an activation to run
first_open(work) == Min({i \in 1..Len(work) : has_todo(work[i])})

\* the tokens of a sentence whose activations have all run
tokens_of(items) == [j \in 1..Len(items) |-> items[j].s]

\* the value the call returns once its activations have all run
result_of(f, work) ==
  IF f = "tokenize_word" THEN tokens_of(work[1])
  ELSE IF f = "tokenize_sentences" THEN [i \in 1..Len(work) |-> tokens_of(work[i])]
  ELSE flatten([i \in 1..Len(work) |-> tokens_of(work[i])])

IdleThread ==
  [pc |-> "idle", call |-> "none", arg |-> <<>>, work |-> <<>>,
   outcome |-> "none", ret |-> <<>>]
NoThreads == [t \in Threads |-> IdleThread]

(***************************************************************************)
(* The call stack of tokenize_word.  A frame is an activation: its text,   *)
(* where it stands (entered, waiting for the tokens of the left part,      *)
(* waiting for those of the right part), the match it chose and the tokens *)
(* of the left part once it has them.                                      *)
(***************************************************************************)
Frame(text) ==
  [text |-> text, stage |-> "enter", m |-> NoMatch, left_tokens |-> <<>>]

Pop(frames) == SubSeq(frames, 1, Len(frames) - 1)

\* what running the stack up to its next call gives
Unwound(v) == [ok |-> TRUE, returned |-> TRUE, val |-> v, stack |-> <<>>]
Calling(frames) == [ok |-> TRUE, returned |-> FALSE, val |-> <<>>, stack |-> frames]
Unwinding == [ok |-> FALSE, returned |-> FALSE, val |-> <<>>, stack |-> <<>>]

\* variant: the right part starts at the match, not after it
right_part_from_match(word, m) == slice(word, m.start, Len(word))

\* word[..start] (line 504) and word[end..] (line 511)
left_part(word, m) == slice(word, 0, m.start)
right_part(word, m) == slice(word, m.end, Len(word))

RECURSIVE return_to(_, _)
\* the tokens v are returned to the activation on top of frames: it goes on
\* to its right part (lines 510-512), or returns the concatenation (line
\* 515) to its own caller
return_to(frames, v) ==
  IF frames = <<>> THEN Unwound(v)
  ELSE LET top == frames[Len(frames)]
       IN IF top.stage = "left"
          THEN LET right == right_part(top.text, top.m)
               IN IF ~right.ok THEN Unwinding
                  ELSE Calling(Append([frames EXCEPT ![Len(frames)] =
                                         [top EXCEPT !.stage = "right",
                                                     !.left_tokens = v]],
                                      Frame(right.val)))
          ELSE return_to(Pop(frames),
                         concat3(top.left_tokens, <<top.m.candidate>>, v))

\* the activation on top of frames after its two loops gave m: it returns
\* the unknown token (line 520) or calls itself on the left part (line 505)
after_loops(frames, m) ==
  LET top == frames[Len(frames)]
  IN IF ~m.ok THEN Unwinding
     ELSE IF ~m.val.found THEN return_to(Pop(frames), unknown(top.text))
     ELSE LET left == left_part(top.text, m.val)
          IN IF ~left.ok THEN Unwinding
             ELSE Calling(Append([frames EXCEPT ![Len(frames)] =
                                    [top EXCEPT !.stage = "left", !.m = m.val]],
                                 Frame(left.val)))

\* the activation just entered on top of frames runs up to its first call
\* or to its return (lines 471-473, 479-508, 520); the loops are run once
enter(tks, frames) ==
  LET top == frames[Len(frames)]
  IN IF top.text = <<>> THEN return_to(Pop(frames), <<>>)
     ELSE CHOOSE r \in {after_loops(frames, m) : m \in {select(tks, top.text)}} : TRUE

(***************************************************************************)
(* Construction: new_from_str, new_from_file, new_default_*                *)
(*                                                                         *)
(* A Result<BytePairEncoder, BytePairEncoderError> is a record: ok, the    *)
(* error kind, the path an InvalidFile error carries, and the store.       *)
(***************************************************************************)
EmptyStore == [k \in {} |-> 0]
OkStore(tks) == [ok |-> TRUE, err |-> "none", path |-> "", tokens |-> tks]
Err(e, p) == [ok |-> FALSE, err |-> e, path |-> p, tokens |-> EmptyStore]
InvalidVocabularyInput == Err("InvalidVocabularyInput", "")

isize_MAX == 2147483647

Digits == <<"0", "1", "2", "3", "4", "5", "6", "7", "8", "9">>
is_digit(c) == \E d \in 1..10 : Digits[d] = c
\* char::to_digit(10)
to_digit(c) == (CHOOSE d \in 1..10 : Digits[d] = c) - 1

\* a piece cut at "\n" loses the "\r" right before that "\n"
strip_cr(piece) ==
  IF piece # <<>> /\ piece[Len(piece)] = "\r"
  THEN SubSeq(piece, 1, Len(piece) - 1)
  ELSE piece

\* variant: the last piece is dropped also when it has no "\n" after it
lines_terminated_only(input) ==
  LET nl == {i \in 1..Len(input) : input[i] = "\n"}
      n == Cardinality(nl)
      at(k) == IF k = 0 THEN 0
               ELSE CHOOSE i \in nl : Cardinality({j \in nl : j <= i}) = k
  IN [k \in 1..n |-> strip_cr(SubSeq(input, at(k - 1) + 1, at(k) - 1))]

\* str::lines: the pieces that end at a "\n" (the "\n" left out), then the
\* rest of the input, as it is, when it is not empty
lines(input) ==
  LET nl == {i \in 1..Len(input) : input[i] = "\n"}
      n == Cardinality(nl)
      \* the index of the k-th "\n"; 0 for k = 0
      at(k) == IF k = 0 THEN 0
               ELSE CHOOSE i \in nl : Cardinality({j \in nl : j <= i}) = k
      last == IF n = 0 THEN 0 ELSE Max(nl)
      ended == [k \in 1..n |-> strip_cr(SubSeq(input, at(k - 1) + 1, at(k) - 1))]
  IN IF last < Len(input)
     THEN ended \o <<SubSeq(input, last + 1, Len(input))>>
     ELSE ended

None == [some |-> FALSE, token |-> <<>>, score_str |-> <<>>]
Some(t, s) == [some |-> TRUE, token |-> t, score_str |-> s]

\* variant: the line is split at its last tab (rsplit_once)
split_once_last(line) ==
  LET tabs == {i \in 1..Len(line) : line[i] = "\t"}
  IN IF tabs = {} THEN None
     ELSE Some(SubSeq(line, 1, Max(tabs) - 1),
               SubSeq(line, Max(tabs) + 1, Len(line)))

\* line.split_once('\t'): the text before and the text after the first tab
split_once(line) ==
  LET tabs == {i \in 1..Len(line) : line[i] = "\t"}
  IN IF tabs = {} THEN None
     ELSE Some(SubSeq(line, 1, Min(tabs) - 1),
               SubSeq(line, Min(tabs) + 1, Len(line)))

ParseErr == [ok |-> FALSE, val |-> 0]

RECURSIVE parse_digits(_, _, _, _)
\* the digit loop of isize::from_str, from index i on with the value acc:
\* checked_mul(10), then checked_add(digit), or checked_sub for a negative
parse_digits(s, i, acc, neg) ==
  IF i > Len(s) THEN Ok(acc)
  ELSE IF ~is_digit(s[i]) THEN ParseErr
  ELSE LET d == to_digit(s[i])
       IN IF neg
          THEN IF acc < (isize_MIN + d + 9) \div 10 THEN ParseErr
               ELSE parse_digits(s, i + 1, acc * 10 - d, neg)
          ELSE IF acc > (isize_MAX - d) \div 10 THEN ParseErr
               ELSE parse_digits(s, i + 1, acc * 10 + d, neg)

\* score_str.parse::<isize>()
parse_isize(s) ==
  IF s = <<>> THEN ParseErr
  ELSE IF s \in {<<"+">>, <<"-">>} THEN ParseErr
  ELSE IF s[1] = "-" THEN parse_digits(s, 2, 0, TRUE)
  ELSE IF s[1] = "+" THEN parse_digits(s, 2, 0, FALSE)
  ELSE parse_digits(s, 1, 0, FALSE)

\* HashMap::insert
\* variant: a token already in the store keeps its score
insert_if_absent(tks, token, score) ==
  [k \in DOMAIN tks \cup {token} |-> IF k \in DOMAIN tks THEN tks[k] ELSE score]

insert(tks, token, score) ==
  [k \in DOMAIN tks \cup {token} |-> IF k = token THEN score ELSE tks[k]]

RECURSIVE parse_lines_skipping(_, _, _)
\* variant: a line without a tab is skipped
parse_lines_skipping(ls, i, tks) ==
  IF i > Len(ls) THEN OkStore(tks)
  ELSE LET pair == split_once(ls[i])
       IN IF ~pair.some THEN parse_lines_skipping(ls, i + 1, tks)
          ELSE LET score == parse_isize(pair.score_str)
               IN IF ~score.ok THEN InvalidVocabularyInput
                  ELSE parse_lines_skipping(ls, i + 1, insert(tks, pair.token, score.val))

RECURSIVE parse_lines_partial(_, _, _)
\* variant: the loop is left at a malformed line and the entries read so far
\* are returned
parse_lines_partial(ls, i, tks) ==
  IF i > Len(ls) THEN OkStore(tks)
  ELSE LET pair == split_once(ls[i])
       IN IF ~pair.some THEN OkStore(tks)
          ELSE LET score == parse_isize(pair.score_str)
               IN IF ~score.ok THEN OkStore(tks)
                  ELSE parse_lines_partial(ls, i + 1, insert(tks, pair.token, score.val))

RECURSIVE parse_lines(_, _, _)
\* the loop of new_from_str (lines 145-155) from the i-th line on, tks being
\* the entries inserted so far
parse_lines(ls, i, tks) ==
  IF i > Len(ls) THEN OkStore(tks)
  ELSE LET pair == split_once(ls[i])
       IN IF ~pair.some THEN InvalidVocabularyInput
          ELSE LET score == parse_isize(pair.score_str)
               IN IF ~score.ok THEN InvalidVocabularyInput
                  ELSE parse_lines(ls, i + 1, insert(tks, pair.token, score.val))

new_from_str(input) == parse_lines(lines(input), 1, EmptyStore)

\* fs::read_to_string(file_path): the text of the file, or an error
ReadErr == [ok |-> FALSE, val |-> <<>>]

\* variant: a file that cannot be read is taken as empty
new_from_file_or_default(file_path, read) ==
  IF ~read.ok THEN new_from_str(<<>>) ELSE new_from_str(read.val)

\* new_from_file, read being what fs::read_to_string(file_path) gives
new_from_file(file_path, read) ==
  IF ~read.ok THEN Err("InvalidFile", file_path) ELSE new_from_str(read.val)

\* default_vocabs.rs
Features == {"default-small", "default-medium", "default-large"}

feature_of(vocab) ==
  CASE vocab = "Small" -> "default-small"
    [] vocab = "Medium" -> "default-medium"
    [] vocab = "Large" -> "default-large"

\* DEFAULT_*_DATA: the bytes the build script wrote when the feature is
\* enabled, &[] when it is not; bytes are modelled by what they decode to
NoBytes == [empty |-> TRUE, tokens |-> EmptyStore]
Bundled(tks) == [empty |-> FALSE, tokens |-> tks]
default_data(vocab, features, bundle) ==
  IF feature_of(vocab) \in features THEN Bundled(bundle) ELSE NoBytes

\* decompress_size_prepended and bincode::deserialize: the empty input has
\* no size prefix and is refused
decompress_size_prepended(data) ==
  IF data.empty THEN [ok |-> FALSE, val |-> EmptyStore] ELSE Ok(data.tokens)

\* new_default under the features of the build
new_default(vocab, features, bundle) ==
  IF features = {} THEN Err("NoDefaultVocabFeature", "")
  ELSE LET uncompressed == decompress_size_prepended(default_data(vocab, features, bundle))
       IN IF ~uncompressed.ok THEN Err("DecompressionError", "")
          ELSE OkStore(uncompressed.val)

new_default_small(features, bundle) == new_default("Small", features, bundle)
new_default_medium(features, bundle) == new_default("Medium", features, bundle)
new_default_large(features, bundle) == new_default("Large", features, bundle)

(***************************************************************************)
(* Inputs                                                                  *)
(***************************************************************************)
\* The stores are those new_from_str can build: any finite set of keys, the
\* empty string included (the line "<TAB>1" stores it), with any scores.
WordChars == {"a", "b"}
Words == Strings(WordChars, 0, MaxWordLen)
WordStores == Stores(Strings(WordChars, 0, MaxKeyLen), MaxVocabSize)

TextChars == WordChars \cup Upper \cup Sp \cup STerm
Texts == Strings(TextChars, 0, MaxTextLen)
TextKeys == {<<"a">>, <<"b">>, <<"U2581">>}
TextStores == UNION {[D -> Scores] : D \in SUBSET TextKeys}

\* Vocabulary texts: up to MaxLines lines with "\n" after each, the "\n"
\* after the last one optional.  The lines are entries with scores of every
\* accepted and refused form and lines that are no entries.
Entry(token, score_str) == token \o <<"\t">> \o score_str
VocabLines ==
  { Entry(<<"a">>, <<"1">>),
    Entry(<<"a">>, <<"-", "1">>),
    Entry(<<"b">>, <<"+", "1">>),
    Entry(<<"b">>, <<"0", "7">>),
    Entry(<<>>, <<"-", "0">>),
    Entry(<<"a", " ", "b">>, <<"2">>),
    Entry(<<"b">>, <<"2", "1", "4", "7", "4", "8", "3", "6", "4", "7">>),
    Entry(<<"b">>, <<"2", "1", "4", "7", "4", "8", "3", "6", "4", "8">>),
    Entry(<<"a">>, <<"-", "2", "1", "4", "7", "4", "8", "3", "6", "4", "8">>),
    Entry(<<"a">>, <<"-", "2", "1", "4", "7", "4", "8", "3", "6", "4", "9">>),
    Entry(<<"a">>, <<"x">>),
    Entry(<<"a">>, <<>>),
    Entry(<<"b">>, <<"-">>),
    Entry(<<"b">>, <<" ", "1">>),
    Entry(<<"a">>, <<"1", "\t", "2">>),
    Entry(<<"a">>, <<"b", "\t", "1">>),
    Entry(<<"a">>, <<"1", "\r">>),
    <<>>,
    <<"a">>,
    <<"a", " ", "1">> }

RECURSIVE Unlines(_, _)
\* the lines ls one after the other, "\n" after each but, when last_open,
\* the last
Unlines(ls, last_open) ==
  IF ls = <<>> THEN <<>>
  ELSE IF Len(ls) = 1 /\ last_open THEN ls[1]
  ELSE ls[1] \o <<"\n">> \o Unlines(Tail(ls), last_open)

VocabTexts ==
  {Unlines(ls, o) : ls \in Strings(VocabLines, 0, MaxLines), o \in BOOLEAN}

Paths == {"vocab.txt", "missing.txt"}
Reads == {ReadErr} \cup {Ok(t) : t \in VocabTexts}

\* the stores of the specification of the iterators
IterStores == {[k \in D |-> 1] : D \in SUBSET {<<"a">>, <<"b">>}}

\* the store, the words and the texts of the threads
ThreadStores == {[k \in D |-> 1] : D \in SUBSET {<<"a">>, <<"a", "b">>}}
ThreadWords == {<<"a", "b">>, <<"b", "a">>}
ThreadTexts == {<<"a", "!", "b">>}
ThreadCalls ==
  {[call |-> "tokenize_word", arg |-> w] : w \in ThreadWords}
    \cup {[call |-> f, arg |-> x] : f \in {"tokenize", "tokenize_sentences"},
                                    x \in ThreadTexts}

\* stores with keys that cover two words of a text: with the space between
\* them, with the prefix between them, and with nothing between them
SpanKeys ==
  { <<"a">>, <<"b">>,
    WORD_BREAK_CHAR \o <<"a">>,
    <<"a", " ", "b">>,
    WORD_BREAK_CHAR \o <<"a">> \o WORD_BREAK_CHAR \o <<"b">>,
    <<"a", "b">> }
SpanStores == {[k \in D |-> 1] : D \in SUBSET SpanKeys}

\* stores that hold the markers themselves as keys, and texts in which the
\* markers are written
MarkerKeys ==
  {SENTENCE_START_TOKEN, SENTENCE_END_TOKEN, <<"s">>, <<"a">>, WORD_BREAK_CHAR}
MarkerStores == {[k \in D |-> 1] : D \in SUBSET MarkerKeys}
MarkerTexts ==
  { SENTENCE_START_TOKEN,
    SENTENCE_END_TOKEN,
    SENTENCE_START_TOKEN \o SENTENCE_END_TOKEN,
    SENTENCE_START_TOKEN \o <<"!">> \o SENTENCE_END_TOKEN,
    <<"a", "!">> \o SENTENCE_START_TOKEN,
    <<"a", "!", " ", "s", "!", " ", "a">>,
    <<"<", "!", "s", ">">>,
    <<"<", ">", "!">> }

\* stores with keys in upper case, and texts in both cases with full stops
CaseChars == {"a", "A", ".", " "}
CaseKeys == {<<"a">>, <<"A">>, <<"U1D400">>}
CaseStores == {[k \in D |-> 1] : D \in SUBSET CaseKeys}
CaseTexts ==
  Strings(CaseChars, 0, MaxCaseLen)
    \cup {<<"U1D400">>, <<"a", " ", "U1D400">>, <<"a", ".", "U1D400">>}

\* stores with scores at the lower limit of isize
MinScores == {isize_MIN, isize_MIN + 1, 0}
MinKeys == {<<"a">>, <<"b">>, <<"a", "b">>}
MinStores == UNION {[D -> MinScores] : D \in SUBSET MinKeys}

\* the stores of the specification of the call stack; the stack is not
\* followed beyond MaxDepth frames
RecKeys == {<<>>, <<"a">>, <<"b">>, <<"a", "b">>}
RecStores == {[k \in D |-> 1] : D \in SUBSET RecKeys}
RecWords ==
  {<<>>, <<"a">>, <<"a", "b">>, <<"b", "a">>, <<"b", "b">>,
   <<"a", "b", "a">>, <<"a", "a", "b">>, <<"b", "a", "b">>, <<"b", "b", "b">>}
MaxDepth == 5

\* what build.rs bundles for a vocabulary whose feature is enabled
BundledStores == {[k \in D |-> 1] : D \in SUBSET {<<"a">>, <<"b">>}}

(***************************************************************************)
(* The state machine                                                       *)
(***************************************************************************)
Idle ==
  /\ pc = "idle"
  /\ call = "none"
  /\ arg = <<>>
  /\ sel = NoMatch
  /\ outcome = "none"
  /\ ret = <<>>
  /\ iters = NoIters
  /\ threads = NoThreads
  /\ stack = <<>>

Init == tokens \in WordStores /\ Idle

InitText == tokens \in TextStores /\ Idle

\* a call of f on input x that ends with result r
Call(f, x, r) ==
  /\ pc' = "done"
  /\ call' = f
  /\ arg' = x
  /\ outcome' = IF r.ok THEN "returned" ELSE "panicked"
  /\ ret' = r.val
  /\ UNCHANGED <<tokens, iters, threads, stack>>

TokenizeWord ==
  /\ pc = "idle"
  /\ \E text \in Words :
      /\ Call("tokenize_word", text, tokenize_word(tokens, text))
      /\ sel' = LET m == select(tokens, text)
                IN IF text # <<>> /\ m.ok THEN m.val ELSE NoMatch

TokenizeWithSentenceMarkersIter ==
  /\ pc = "idle"
  /\ \E sentence \in Texts :
      /\ Call("tokenize_with_sentence_markers_iter", sentence,
              tokenize_with_sentence_markers_iter(tokens, sentence))
      /\ UNCHANGED sel

TokenizeSentencesIter ==
  /\ pc = "idle"
  /\ \E text \in Texts :
      /\ Call("tokenize_sentences_iter", text, tokenize_sentences_iter(tokens, text))
      /\ UNCHANGED sel

TokenizeIter ==
  /\ pc = "idle"
  /\ \E text \in Texts :
      /\ Call("tokenize_iter", text, tokenize_iter(tokens, text))
      /\ UNCHANGED sel

TokenizeSentences ==
  /\ pc = "idle"
  /\ \E text \in Texts :
      /\ Call("tokenize_sentences", text, tokenize_sentences(tokens, text))
      /\ UNCHANGED sel

Tokenize ==
  /\ pc = "idle"
  /\ \E text \in Texts :
      /\ Call("tokenize", text, tokenize(tokens, text))
      /\ UNCHANGED sel

\* the caller takes the result; the store is left as it is
Return ==
  /\ pc = "done"
  /\ pc' = "idle"
  /\ call' = "none"
  /\ arg' = <<>>
  /\ sel' = NoMatch
  /\ outcome' = "none"
  /\ ret' = <<>>
  /\ iters' = NoIters
  /\ UNCHANGED <<tokens, threads, stack>>

\* a constructor f called with x that gives the Result r; the encoder is the
\* value returned, no encoder in use is touched
Construct(f, x, r) ==
  /\ pc' = "done"
  /\ call' = f
  /\ arg' = x
  /\ outcome' = IF r.ok THEN "Ok" ELSE r.err
  /\ ret' = r
  /\ UNCHANGED <<tokens, sel, iters, threads, stack>>

NewFromStr ==
  /\ pc = "idle"
  /\ \E input \in VocabTexts :
      Construct("new_from_str", input, new_from_str(input))

NewFromFile ==
  /\ pc = "idle"
  /\ \E file_path \in Paths, read \in Reads :
      Construct("new_from_file", [file_path |-> file_path, read |-> read],
                new_from_file(file_path, read))

NewDefaultSmall ==
  /\ pc = "idle"
  /\ \E features \in SUBSET Features, bundle \in BundledStores :
      Construct("new_default_small",
                [vocab |-> "Small", features |-> features, bundle |-> bundle],
                new_default_small(features, bundle))

NewDefaultMedium ==
  /\ pc = "idle"
  /\ \E features \in SUBSET Features, bundle \in BundledStores :
      Construct("new_default_medium",
                [vocab |-> "Medium", features |-> features, bundle |-> bundle],
                new_default_medium(features, bundle))

NewDefaultLarge ==
  /\ pc = "idle"
  /\ \E features \in SUBSET Features, bundle \in BundledStores :
      Construct("new_default_large",
                [vocab |-> "Large", features |-> features, bundle |-> bundle],
                new_default_large(features, bundle))

\* let it = encoder.tokenize_sentences_iter(text): nothing is read yet
IterSentences ==
  /\ pc = "idle"
  /\ \E text \in Texts :
      /\ pc' = "iterating"
      /\ call' = "tokenize_sentences_iter"
      /\ arg' = text
      /\ iters' = sentences_iter(text)
      /\ UNCHANGED <<tokens, sel, outcome, ret, threads, stack>>

\* it.next() giving the iterator of the next sentence
OuterNext ==
  /\ pc = "iterating"
  /\ call = "tokenize_sentences_iter"
  /\ iters.outer # <<>>
  /\ iters' = outer_next(iters)
  /\ UNCHANGED <<tokens, pc, call, arg, sel, outcome, ret, threads, stack>>

\* next() on one of the sentence iterators obtained so far, in any order
InnerNext ==
  /\ pc = "iterating"
  /\ call = "tokenize_sentences_iter"
  /\ \E i \in 1..Len(iters.inner) :
      /\ ~iters.finished[i]
      /\ LET r == inner_next(tokens, iters.inner[i])
         IN IF ~r.ok
            THEN /\ pc' = "done"
                 /\ outcome' = "panicked"
                 /\ UNCHANGED <<iters, ret>>
            ELSE /\ iters' = [iters EXCEPT
                                !.inner[i] = r.it,
                                !.out[i] = IF r.some THEN Append(@, r.item) ELSE @,
                                !.finished[i] = ~r.some]
                 /\ UNCHANGED <<pc, outcome, ret>>
  /\ UNCHANGED <<tokens, call, arg, sel, threads, stack>>

\* it.next() gave None and every sentence iterator gave None: the consumer
\* holds what it collected from each
CollectSentences ==
  /\ pc = "iterating"
  /\ call = "tokenize_sentences_iter"
  /\ iters.outer = <<>>
  /\ \A i \in 1..Len(iters.inner) : iters.finished[i]
  /\ pc' = "done"
  /\ outcome' = "returned"
  /\ ret' = iters.out
  /\ UNCHANGED <<tokens, call, arg, sel, iters, threads, stack>>

\* let it = encoder.tokenize_iter(text)
IterFlat ==
  /\ pc = "idle"
  /\ \E text \in Texts :
      /\ pc' = "iterating"
      /\ call' = "tokenize_iter"
      /\ arg' = text
      /\ iters' = sentences_iter(text)
      /\ UNCHANGED <<tokens, sel, outcome, ret, threads, stack>>

\* it.next() on the flat iterator; the consumer keeps the items in ret and
\* stops at None
FlatNext ==
  /\ pc = "iterating"
  /\ call = "tokenize_iter"
  /\ LET r == flatten_next(tokens, iters)
     IN /\ iters' = r.it
        /\ IF ~r.ok
           THEN pc' = "done" /\ outcome' = "panicked" /\ ret' = ret
           ELSE IF r.some
           THEN pc' = pc /\ outcome' = outcome /\ ret' = Append(ret, r.item)
           ELSE pc' = "done" /\ outcome' = "returned" /\ ret' = ret
  /\ UNCHANGED <<tokens, call, arg, sel, threads, stack>>

\* the thread t calls one of the three operations on the shared encoder
ThreadCall(t) ==
  /\ threads[t].pc = "idle"
  /\ \E c \in ThreadCalls :
      threads' = [threads EXCEPT ![t] =
                    [pc |-> "running", call |-> c.call, arg |-> c.arg,
                     work |-> start_work(c.call, c.arg),
                     outcome |-> "none", ret |-> <<>>]]
  /\ UNCHANGED <<tokens, pc, call, arg, sel, outcome, ret, iters, stack>>

\* the next activation of tokenize_word of the call of t
ThreadStep(t) ==
  /\ threads[t].pc = "running"
  /\ ~all_done(threads[t].work)
  /\ LET work == threads[t].work
         i == first_open(work)
         j == first_todo(work[i])
         r == activation(tokens, work[i][j].s)
     IN /\ tokens' = r.tokens
        /\ IF ~r.ok
           THEN threads' = [threads EXCEPT ![t].pc = "done", ![t].outcome = "panicked"]
           ELSE threads' = [threads EXCEPT ![t].work[i] =
                              SubSeq(work[i], 1, j - 1) \o r.val
                                \o SubSeq(work[i], j + 1, Len(work[i]))]
  /\ UNCHANGED <<pc, call, arg, sel, outcome, ret, iters, stack>>

\* the call of t returns
ThreadFinish(t) ==
  /\ threads[t].pc = "running"
  /\ all_done(threads[t].work)
  /\ threads' = [threads EXCEPT ![t].pc = "done",
                                ![t].outcome = "returned",
                                ![t].ret = result_of(threads[t].call, threads[t].work)]
  /\ UNCHANGED <<tokens, pc, call, arg, sel, outcome, ret, iters, stack>>

\* t takes the result and is free for another call
ThreadReturn(t) ==
  /\ threads[t].pc = "done"
  /\ threads' = [threads EXCEPT ![t] = IdleThread]
  /\ UNCHANGED <<tokens, pc, call, arg, sel, outcome, ret, iters, stack>>

\* encoder.tokenize_word(text): the first activation is entered
RecCall ==
  /\ pc = "idle"
  /\ \E text \in RecWords :
      /\ pc' = "running"
      /\ call' = "tokenize_word"
      /\ arg' = text
      /\ stack' = <<Frame(text)>>
      /\ UNCHANGED <<tokens, sel, outcome, ret, iters, threads>>

\* the activation on top of the stack runs up to its next recursive call,
\* or returns, and with it every caller that has nothing left to call
RecStep ==
  /\ pc = "running"
  /\ Len(stack) <= MaxDepth
  /\ \E r \in {enter(tokens, stack)} :
        /\ stack' = r.stack
        /\ pc' = IF r.ok /\ ~r.returned THEN "running" ELSE "done"
        /\ outcome' = IF ~r.ok THEN "panicked"
                      ELSE IF r.returned THEN "returned" ELSE outcome
        /\ ret' = r.val
  /\ UNCHANGED <<tokens, call, arg, sel, iters, threads>>

Next == TokenizeWord \/ Return

NextText ==
  \/ TokenizeWord
  \/ TokenizeWithSentenceMarkersIter
  \/ TokenizeSentencesIter
  \/ TokenizeIter
  \/ TokenizeSentences
  \/ Tokenize
  \/ Return

Spec == Init /\ [][Next]_vars

SpecText == InitText /\ [][NextText]_vars

InitIter == tokens \in IterStores /\ Idle

NextIter ==
  \/ IterSentences
  \/ OuterNext
  \/ InnerNext
  \/ CollectSentences
  \/ IterFlat
  \/ FlatNext
  \/ Return

SpecIter == InitIter /\ [][NextIter]_vars

InitThreads == tokens \in ThreadStores /\ Idle

NextThreads ==
  \E t \in Threads :
    \/ ThreadCall(t)
    \/ ThreadStep(t)
    \/ ThreadFinish(t)
    \/ ThreadReturn(t)

SpecThreads == InitThreads /\ [][NextThreads]_vars

InitSpan == tokens \in SpanStores /\ Idle

NextSpan == Tokenize \/ TokenizeSentences \/ Return

SpecSpan == InitSpan /\ [][NextSpan]_vars

InitMarker == tokens \in MarkerStores /\ Idle

\* tokenize on a text in which markers may be written
TokenizeMarked ==
  /\ pc = "idle"
  /\ \E text \in Texts \cup MarkerTexts :
      /\ Call("tokenize", text, tokenize(tokens, text))
      /\ UNCHANGED sel

NextMarker == TokenizeMarked \/ Return

SpecMarker == InitMarker /\ [][NextMarker]_vars

InitCase == tokens \in CaseStores /\ Idle

\* tokenize_sentences on a text in both cases
TokenizeSentencesCased ==
  /\ pc = "idle"
  /\ \E text \in CaseTexts :
      /\ Call("tokenize_sentences", text, tokenize_sentences(tokens, text))
      /\ UNCHANGED sel

\* tokenize on a text in both cases
TokenizeCased ==
  /\ pc = "idle"
  /\ \E text \in CaseTexts :
      /\ Call("tokenize", text, tokenize(tokens, text))
      /\ UNCHANGED sel

NextCase == TokenizeSentencesCased \/ TokenizeCased \/ Return

SpecCase == InitCase /\ [][NextCase]_vars

InitMin == tokens \in MinStores /\ Idle

SpecMin == InitMin /\ [][Next]_vars

InitRec == tokens \in RecStores /\ Idle

NextRec == RecCall \/ RecStep \/ Return

SpecRec == InitRec /\ [][NextRec]_vars

\* a call that has begun keeps running until it returns
FairSpecRec == SpecRec /\ WF_vars(RecStep)

\* construction: no encoder is in use yet
InitNew == tokens = EmptyStore /\ Idle

NextNew ==
  \/ NewFromStr
  \/ NewFromFile
  \/ NewDefaultSmall
  \/ NewDefaultMedium
  \/ NewDefaultLarge
  \/ Return

SpecNew == InitNew /\ [][NextNew]_vars

(***************************************************************************)
(* Properties                                                              *)
(***************************************************************************)
\* the key k stands in word at character offset s
OccursAt(k, word, s) ==
  /\ s + Len(k) <= Len(word)
  /\ \A i \in 1..Len(k) : word[s + i] = k[i]

\* some key of length L is a contiguous substring of word
KeyOfLen(word, L) ==
  \E k \in DOMAIN tokens : Len(k) = L /\ \E s \in 0..Len(word) : OccursAt(k, word, s)

\* no key of length 1..n is a contiguous substring of word
NothingMatches(word) == \A L \in 1..Len(word) : ~KeyOfLen(word, L)

WordDone == pc = "done" /\ call = "tokenize_word"

\* the tokens of the words ws, each prefixed by p and lower-cased, in order
RECURSIVE WordTokens(_, _)
WordTokens(p, ws) ==
  IF ws = <<>> THEN <<>>
  ELSE WordTokens(p, SubSeq(ws, 1, Len(ws) - 1))
         \o tokenize_word(tokens, p \o to_lowercase(ws[Len(ws)])).val

\* the concatenation of the first n sequences of ss
RECURSIVE ConcatFirst(_, _)
ConcatFirst(ss, n) == IF n = 0 THEN <<>> ELSE ConcatFirst(ss, n - 1) \o ss[n]

\* C1: longest-match priority: for a non-empty word, tokenize_word chooses a
\* token exactly when some substring of the word is a key; the chosen token is
\* a key standing at the chosen span, no key longer than it occurs in the
\* word whatever the scores, and the chosen token is one of the result's tokens
C1_LongestMatchPriority ==
  (WordDone /\ arg # <<>>) =>
    /\ sel.found <=> ~NothingMatches(arg)
    /\ sel.found =>
         /\ sel.candidate \in DOMAIN tokens
         /\ sel.end = sel.start + Len(sel.candidate)
         /\ OccursAt(sel.candidate, arg, sel.start)
         /\ \A L \in 1..Len(arg) : KeyOfLen(arg, L) => L <= Len(sel.candidate)
         /\ \E i \in 1..Len(ret) : ret[i] = sel.candidate

\* a longer key with a lower score was chosen over a shorter key of the word
C1_Witness ==
  /\ WordDone /\ sel.found
  /\ \E k \in DOMAIN tokens :
       /\ Len(k) >= 1 /\ Len(k) < Len(sel.candidate)
       /\ tokens[k] > tokens[sel.candidate]
       /\ \E s \in 0..Len(arg) : OccursAt(k, arg, s)

\* C2: recursive decomposition: when a match is chosen at span [start, end),
\* the result is tokenize_word(word[0..start]), then the matched token, then
\* tokenize_word(word[end..n])
C2_RecursiveDecomposition ==
  (WordDone /\ sel.found) =>
    ret = tokenize_word(tokens, SubSeq(arg, 1, sel.start)).val
            \o <<sel.candidate>>
            \o tokenize_word(tokens, SubSeq(arg, sel.end + 1, Len(arg))).val

\* a match in the middle of the word, with an unknown span on one side and a
\* key on the other
C2_Witness ==
  /\ WordDone /\ sel.found
  /\ sel.start > 0 /\ sel.end < Len(arg)
  /\ Len(ret) = 3
  /\ ret[1] # ret[3]
  /\ UNKNOWN_TOKEN \in {ret[1], ret[3]}
  /\ \E k \in DOMAIN tokens : k \in {ret[1], ret[3]}

\* C3: unknown fallback: a non-empty word none of whose substrings is a key
\* gives exactly one '<unk>', whatever its length
C3_UnknownFallback ==
  (WordDone /\ arg # <<>> /\ NothingMatches(arg)) => ret = <<UNKNOWN_TOKEN>>

C3_Witness ==
  /\ WordDone /\ Len(arg) >= 3 /\ NothingMatches(arg)
  /\ \E k \in DOMAIN tokens : Len(k) >= 1
  /\ ret = <<UNKNOWN_TOKEN>>

\* C4: sentence assembly: the result for one sentence is '<s>', then the
\* tokens of prefix + lowercase(w) for each word w of the sentence in textual
\* order, then '</s>'; a sentence without words gives ['<s>', '</s>']
C4_SentenceAssembly ==
  (pc = "done" /\ call = "tokenize_with_sentence_markers_iter") =>
    /\ ret = <<SENTENCE_START_TOKEN>>
               \o WordTokens(WORD_BREAK_CHAR, unicode_words(arg))
               \o <<SENTENCE_END_TOKEN>>
    /\ unicode_words(arg) = <<>> => ret = <<SENTENCE_START_TOKEN, SENTENCE_END_TOKEN>>

\* a sentence of two different words, one upper-case, both with a known part
C4_Witness ==
  /\ pc = "done" /\ call = "tokenize_with_sentence_markers_iter"
  /\ Len(unicode_words(arg)) = 2
  /\ unicode_words(arg)[1] = <<"A">>
  /\ unicode_words(arg)[2] = <<"b">>
  /\ \E i, j \in 1..Len(ret) : i < j /\ ret[i] = <<"a">> /\ ret[j] = <<"b">>

\* C5: flattening law: tokenize(text) is the concatenation, in sentence
\* order, of the inner sequences of tokenize_sentences(text)
C5_FlatteningLaw ==
  (pc = "done" /\ call = "tokenize") =>
    LET nested == tokenize_sentences(tokens, arg).val
    IN ret = ConcatFirst(nested, Len(nested))

\* a text of two sentences whose token sequences differ
C5_Witness ==
  /\ pc = "done" /\ call = "tokenize"
  /\ LET nested == tokenize_sentences(tokens, arg).val
     IN Len(nested) = 2 /\ nested[1] # nested[2] /\ Len(ret) = Len(nested[1]) + Len(nested[2])

\* the tokens <<U+2581, lowercase(w)>> of the words ws, in order
RECURSIVE BreakAndWord(_)
BreakAndWord(ws) ==
  IF ws = <<>> THEN <<>>
  ELSE <<<<"U2581">>, to_lowercase(Head(ws))>> \o BreakAndWord(Tail(ws))

\* C6: the word-break prefix is the single character U+2581: when the store
\* has the key U+2581 and, for every word of the sentence, the lower-cased
\* word w as a key and no key that is a longer substring of U+2581 w, each
\* word gives exactly the two tokens U+2581 and w
C6_WordBreakPrefix ==
  (/\ pc = "done" /\ call = "tokenize_with_sentence_markers_iter"
   /\ <<"U2581">> \in DOMAIN tokens
   /\ \A i \in 1..Len(unicode_words(arg)) :
        LET w == to_lowercase(unicode_words(arg)[i])
        IN /\ w \in DOMAIN tokens
           /\ \A k \in DOMAIN tokens :
                Len(k) > Len(w) => \A s \in 0..1 : ~OccursAt(k, <<"U2581">> \o w, s))
  => ret = <<SENTENCE_START_TOKEN>>
             \o BreakAndWord(unicode_words(arg))
             \o <<SENTENCE_END_TOKEN>>

\* the tokens of a result of the text pipeline
IsToken(t) ==
  t \in DOMAIN tokens \cup {UNKNOWN_TOKEN, SENTENCE_START_TOKEN, SENTENCE_END_TOKEN}

\* C7: tokenization is total: every call on a store, the empty store
\* included, returns (it does not panic) a sequence of tokens; a word that
\* matches nothing, and any word under the empty store, is given as '<unk>'
C7_TokenizationTotal ==
  pc = "done" =>
    /\ outcome = "returned"
    /\ call \in {"tokenize_sentences", "tokenize_sentences_iter"} =>
         \A i \in 1..Len(ret) : \A j \in 1..Len(ret[i]) : IsToken(ret[i][j])
    /\ call \notin {"tokenize_sentences", "tokenize_sentences_iter"} =>
         \A i \in 1..Len(ret) : IsToken(ret[i])
    /\ (call = "tokenize_word" /\ arg # <<>> /\ NothingMatches(arg)) =>
         \E i \in 1..Len(ret) : ret[i] = UNKNOWN_TOKEN
    /\ (call = "tokenize" /\ DOMAIN tokens = {} /\ has_alphanumeric(arg)) =>
         \E i \in 1..Len(ret) : ret[i] = UNKNOWN_TOKEN

\* tokenize under the empty store, on a text of two words
C7_Witness ==
  /\ pc = "done" /\ call = "tokenize" /\ outcome = "returned"
  /\ DOMAIN tokens = {}
  /\ Len(arg) = 3 /\ arg[2] = " "
  /\ ret = <<SENTENCE_START_TOKEN, UNKNOWN_TOKEN, UNKNOWN_TOKEN, SENTENCE_END_TOKEN>>

C9_WholeWordEntry ==
  (WordDone /\ arg \in DOMAIN tokens) => ret = <<arg>>

\* C9, amended: a non-empty word that is itself a key gives exactly that one
\* token (the empty word gives no token, also when the empty string is a key)
C9_WholeWordEntryNonEmpty ==
  (WordDone /\ arg # <<>> /\ arg \in DOMAIN tokens) => ret = <<arg>>

\* a whole-word key chosen although a shorter key of the word scores higher
C9_Witness ==
  /\ WordDone /\ Len(arg) >= 2 /\ arg \in DOMAIN tokens
  /\ ret = <<arg>>
  /\ \E k \in DOMAIN tokens :
       /\ Len(k) >= 1 /\ Len(k) < Len(arg) /\ tokens[k] > tokens[arg]
       /\ OccursAt(k, arg, 0)

\* C10: empty text: tokenize, tokenize_sentences and their iterator forms
\* give the empty sequence for the empty text: no token and no sentence
C10_EmptyText ==
  (/\ pc = "done"
   /\ call \in {"tokenize", "tokenize_sentences", "tokenize_iter", "tokenize_sentences_iter"}
   /\ arg = <<>>)
  => ret = <<>>

C10_Witness ==
  /\ pc = "done" /\ call = "tokenize_sentences" /\ arg = <<>>
  /\ outcome = "returned"
  /\ Len(ret) = 0
  /\ \E k \in DOMAIN tokens : Len(k) >= 1

\* C11: tokenize_word returns the empty sequence exactly for the empty word:
\* the empty word gives no token, every non-empty word gives at least one
C11_EmptyIffEmptyWord ==
  WordDone => (ret = <<>> <=> arg = <<>>)

\* the empty word under a store that has the empty string and another key
C11_Witness ==
  /\ WordDone /\ arg = <<>> /\ ret = <<>>
  /\ <<>> \in DOMAIN tokens
  /\ \E k \in DOMAIN tokens : Len(k) >= 1


(***************************************************************************)
(* Construction                                                            *)
(***************************************************************************)
RECURSIVE ScanLines(_, _, _, _)
\* the lines of a text, read one character at a time: cur is the line being
\* read, acc the lines already ended; a line ends at "\n" or at "\r\n", and
\* the text after the last "\n", when there is some, is a line too
ScanLines(input, i, cur, acc) ==
  IF i > Len(input) THEN (IF cur = <<>> THEN acc ELSE Append(acc, cur))
  ELSE IF input[i] = "\n"
       THEN ScanLines(input, i + 1, <<>>,
                      Append(acc, IF cur # <<>> /\ cur[Len(cur)] = "\r"
                                  THEN SubSeq(cur, 1, Len(cur) - 1) ELSE cur))
       ELSE ScanLines(input, i + 1, Append(cur, input[i]), acc)

LinesOf(input) == ScanLines(input, 1, <<>>, <<>>)

DigitChars == {"0", "1", "2", "3", "4", "5", "6", "7", "8", "9"}
DigitRank(c) == (CHOOSE i \in 1..10 : Digits[i] = c) - 1

\* a digit string without its leading zeros ("0" for zero)
RECURSIVE StripZeros(_)
StripZeros(ds) ==
  IF Len(ds) > 1 /\ ds[1] = "0" THEN StripZeros(Tail(ds)) ELSE ds

\* digit strings of the same length compared as numbers
DigitsLeq(x, y) ==
  \/ x = y
  \/ \E i \in 1..Len(x) :
       /\ \A j \in 1..(i - 1) : x[j] = y[j]
       /\ DigitRank(x[i]) < DigitRank(y[i])

MaxDigits == <<"2", "1", "4", "7", "4", "8", "3", "6", "4", "7">>
MinDigits == <<"2", "1", "4", "7", "4", "8", "3", "6", "4", "8">>

\* s is a base-10 integer with an optional sign that an isize holds
IsSignedInt(s) ==
  LET signed == s # <<>> /\ s[1] \in {"+", "-"}
      body == IF signed THEN Tail(s) ELSE s
      z == StripZeros(body)
      limit == IF signed /\ s[1] = "-" THEN MinDigits ELSE MaxDigits
  IN /\ body # <<>>
     /\ \A i \in 1..Len(body) : body[i] \in DigitChars
     /\ \/ Len(z) < Len(limit)
        \/ Len(z) = Len(limit) /\ DigitsLeq(z, limit)

HasTab(line) == \E i \in 1..Len(line) : line[i] = "\t"
FirstTab(line) == CHOOSE i \in 1..Len(line) :
                    line[i] = "\t" /\ \A j \in 1..(i - 1) : line[j] # "\t"
TokenOf(line) == SubSeq(line, 1, FirstTab(line) - 1)
ScoreOf(line) == SubSeq(line, FirstTab(line) + 1, Len(line))

\* token, tab, signed base-10 integer
WellFormed(line) == HasTab(line) /\ IsSignedInt(ScoreOf(line))

RECURSIVE NatDecimal(_)
NatDecimal(n) ==
  IF n < 10 THEN <<Digits[n + 1]>>
  ELSE Append(NatDecimal(n \div 10), Digits[(n % 10) + 1])

RECURSIVE NegDecimal(_)
\* the digits of -n for n < 0, taken from the last one without negating n
NegDecimal(n) ==
  LET d == (10 - (n % 10)) % 10
      rest == (n + d) \div 10
  IN IF rest = 0 THEN <<Digits[d + 1]>>
     ELSE Append(NegDecimal(rest), Digits[d + 1])

\* the decimal writing of an integer: no "+", no leading zero, no "-0"
Decimal(n) == IF n >= 0 THEN NatDecimal(n) ELSE <<"-">> \o NegDecimal(n)

\* a well-formed score text brought to that writing
Canonical(s) ==
  LET signed == s[1] \in {"+", "-"}
      z == StripZeros(IF signed THEN Tail(s) ELSE s)
  IN IF s[1] = "-" /\ z # <<"0">> THEN <<"-">> \o z ELSE z

NewFromStrDone == pc = "done" /\ call = "new_from_str"

\* C12: new_from_str on a text with a line that is not token, tab, signed
\* base-10 integer (no tab, a score that is no number or that an isize does
\* not hold) fails with InvalidVocabularyInput
C12_MalformedLineFails ==
  (NewFromStrDone /\ \E ls \in {LinesOf(arg)} : \E i \in 1..Len(ls) : ~WellFormed(ls[i]))
    => outcome = "InvalidVocabularyInput"

\* an entry, then a line with a space in place of the tab
C12_Witness ==
  /\ NewFromStrDone
  /\ Len(LinesOf(arg)) = 2
  /\ WellFormed(LinesOf(arg)[1])
  /\ LinesOf(arg)[2] = <<"a", " ", "1">>
  /\ outcome = "InvalidVocabularyInput"


\* C13: when a line of the input of new_from_str is malformed, whatever its
\* place and however many entries stand before it, the value returned is the
\* error alone: it is no store and no entry read before the line is in it
C13_AtomicFailure ==
  (NewFromStrDone /\ \E ls \in {LinesOf(arg)} : \E i \in 1..Len(ls) : ~WellFormed(ls[i]))
    => /\ ~ret.ok
       /\ ret = InvalidVocabularyInput
       /\ Cardinality(DOMAIN ret.tokens) = 0

\* the malformed line is the last one and entries stand before it
C13_Witness ==
  /\ NewFromStrDone
  /\ Len(LinesOf(arg)) >= 2
  /\ \A i \in 1..(Len(LinesOf(arg)) - 1) : WellFormed(LinesOf(arg)[i])
  /\ ~WellFormed(LinesOf(arg)[Len(LinesOf(arg))])
  /\ ~ret.ok

\* the last line of ls that is an entry of the token k
LastEntry(ls, k) ==
  ls[Max({i \in 1..Len(ls) : TokenOf(ls[i]) = k})]

\* C14: when every line of the input is well formed, new_from_str succeeds
\* and the keys of the store are exactly the tokens of the lines, each mapped
\* to the score its (last) line writes; the empty input gives the empty store
C14_SuccessfulConstruction ==
  (NewFromStrDone /\ \A ls \in {LinesOf(arg)} : \A i \in 1..Len(ls) : WellFormed(ls[i]))
    => \A ls \in {LinesOf(arg)} :
          /\ ret.ok /\ outcome = "Ok"
          /\ DOMAIN ret.tokens = {TokenOf(ls[i]) : i \in 1..Len(ls)}
          /\ \A k \in DOMAIN ret.tokens :
               Decimal(ret.tokens[k]) = Canonical(ScoreOf(LastEntry(ls, k)))
          /\ (arg = <<>> => ret.tokens = EmptyStore)

\* two entries of different tokens, the second with no "\n" after it
C14_Witness ==
  /\ NewFromStrDone
  /\ ret.ok
  /\ Len(LinesOf(arg)) = 2
  /\ arg[Len(arg)] # "\n"
  /\ Cardinality(DOMAIN ret.tokens) = 2


NewFromFileDone == pc = "done" /\ call = "new_from_file"

\* C15: new_from_file returns InvalidFile with the path it was given when the
\* file cannot be read, whatever the file would hold; when the file is read
\* it returns what new_from_str returns on the text: the store that
\* C14_SuccessfulConstruction describes, or InvalidVocabularyInput
C15_FileThenParse ==
  NewFromFileDone =>
    IF ~arg.read.ok
    THEN /\ outcome = "InvalidFile"
         /\ ret.path = arg.file_path
         /\ ~ret.ok
    ELSE \A ls \in {LinesOf(arg.read.val)} :
            IF \A i \in 1..Len(ls) : WellFormed(ls[i])
            THEN /\ ret.ok
                 /\ DOMAIN ret.tokens = {TokenOf(ls[i]) : i \in 1..Len(ls)}
                 /\ \A k \in DOMAIN ret.tokens :
                      Decimal(ret.tokens[k]) = Canonical(ScoreOf(LastEntry(ls, k)))
            ELSE outcome = "InvalidVocabularyInput" /\ ret.path = ""

\* the file cannot be read
C15_Witness ==
  /\ NewFromFileDone
  /\ ~arg.read.ok
  /\ arg.file_path = "missing.txt"
  /\ ret = Err("InvalidFile", "missing.txt")


NewDefaultDone ==
  /\ pc = "done"
  /\ call \in {"new_default_small", "new_default_medium", "new_default_large"}

\* C16: under every set of build features, new_default_small,
\* new_default_medium or new_default_large called for a vocabulary whose
\* feature is not in the build returns NoDefaultVocabFeature, no other error
C16_FeatureUnavailable ==
  (NewDefaultDone /\ feature_of(arg.vocab) \notin arg.features)
    => outcome = "NoDefaultVocabFeature"


(***************************************************************************)
(* Iterators                                                               *)
(***************************************************************************)
IsPrefix(p, q) == Len(p) <= Len(q) /\ SubSeq(q, 1, Len(p)) = p

\* C17: consuming tokenize_iter(text) to its end gives tokenize(text), and
\* consuming tokenize_sentences_iter(text) and each iterator it yields gives
\* tokenize_sentences(text), in whatever order the sentence iterators are
\* read: at every moment what was taken from the i-th one is the beginning of
\* the i-th sentence of tokenize_sentences(text)
C17_EagerLazyAgree ==
  /\ (pc = "iterating" /\ call = "tokenize_sentences_iter")
       => \A i \in 1..Len(iters.out) :
            /\ i <= Len(tokenize_sentences(tokens, arg).val)
            /\ IsPrefix(iters.out[i], tokenize_sentences(tokens, arg).val[i])
  /\ (pc = "iterating" /\ call = "tokenize_iter")
       => IsPrefix(ret, tokenize(tokens, arg).val)
  /\ (pc = "done" /\ call = "tokenize_sentences_iter")
       => /\ (outcome = "returned") = tokenize_sentences(tokens, arg).ok
          /\ outcome = "returned" => ret = tokenize_sentences(tokens, arg).val
  /\ (pc = "done" /\ call = "tokenize_iter")
       => /\ (outcome = "returned") = tokenize(tokens, arg).ok
          /\ outcome = "returned" => ret = tokenize(tokens, arg).val

\* two sentences, the second read to its end before the first is touched
C17_Witness ==
  /\ pc = "iterating" /\ call = "tokenize_sentences_iter"
  /\ Len(iters.inner) = 2
  /\ iters.out[1] = <<>>
  /\ iters.finished[2]
  /\ Len(iters.out[2]) >= 4


(***************************************************************************)
(* Threads                                                                 *)
(***************************************************************************)
\* the result of the call f on x run by itself on the store tks
Alone(tks, f, x) ==
  IF f = "tokenize_word" THEN tokenize_word(tks, x)
  ELSE IF f = "tokenize_sentences" THEN tokenize_sentences(tks, x)
  ELSE tokenize(tks, x)

\* C19: whatever the interleaving of the tokenize, tokenize_sentences and
\* tokenize_word calls of the threads, no step changes the store, and a call
\* that has ended holds the result the same call gives when run by itself
C19_ReadOnlyStore ==
  [][/\ tokens' = tokens
     /\ \A t \in Threads :
          threads'[t].pc = "done" =>
            LET alone == Alone(tokens', threads'[t].call, threads'[t].arg)
            IN /\ (threads'[t].outcome = "returned") = alone.ok
               /\ alone.ok => threads'[t].ret = alone.val]_vars

\* a tokenize call has ended while a tokenize_word call on the same store is
\* between two of its activations
C19_Witness ==
  \E t, u \in Threads :
    /\ threads[t].pc = "done" /\ threads[t].call = "tokenize"
    /\ Len(threads[t].ret) >= 4
    /\ threads[u].pc = "running" /\ threads[u].call = "tokenize_word"
    /\ \E j \in 1..Len(threads[u].work[1]) : ~threads[u].work[1][j].todo
    /\ has_todo(threads[u].work[1])


(***************************************************************************)
(* Splits of a word                                                        *)
(***************************************************************************)
\* a split of word is given by the offsets where it is cut; its spans are
\* the pairs <<s, e>> of neighbouring offsets, the span being word[s..e]
Cuts(word) == SUBSET (1..(Len(word) - 1))
Spans(word, cuts) ==
  LET B == {0, Len(word)} \cup cuts
  IN {p \in B \X B : p[1] < p[2] /\ ~\E b \in B : p[1] < b /\ b < p[2]}
SpanText(word, p) == SubSeq(word, p[1] + 1, p[2])

\* the spans of the split that are vocabulary keys; the others are '<unk>'
KeySpans(word, cuts) == {p \in Spans(word, cuts) : SpanText(word, p) \in DOMAIN tokens}

\* every span that is not a key is unmatched: no key stands in it
Splits(word) ==
  {cuts \in Cuts(word) :
     \A p \in Spans(word, cuts) :
       SpanText(word, p) \in DOMAIN tokens \/ NothingMatches(SpanText(word, p))}

RECURSIVE SumOver(_, _)
SumOver(word, ps) ==
  IF ps = {} THEN 0
  ELSE LET p == CHOOSE q \in ps : TRUE
       IN tokens[SpanText(word, p)] + SumOver(word, ps \ {p})

\* the total score of the vocabulary tokens of a split
SplitScore(word, cuts) == SumOver(word, KeySpans(word, cuts))

RECURSIVE SeqScore(_)
\* the total score of the vocabulary tokens of a token sequence
SeqScore(ts) ==
  IF ts = <<>> THEN 0
  ELSE (IF Head(ts) \in DOMAIN tokens THEN tokens[Head(ts)] ELSE 0) + SeqScore(Tail(ts))

\* the length of the longest vocabulary token of a token sequence, 0 if none
LongestToken(ts) ==
  Max({0} \cup {Len(ts[i]) : i \in {j \in 1..Len(ts) : ts[j] \in DOMAIN tokens}})

\* C20: tokenize_word returns the best-scoring split: no split of the word
\* into vocabulary keys and unmatched spans has a higher total score of its
\* vocabulary tokens than the sequence returned
C20_BestScoringSplit ==
  (WordDone /\ outcome = "returned" /\ arg # <<>>)
    => \A cuts \in Splits(arg) : SplitScore(arg, cuts) <= SeqScore(ret)

\* C20, amended: tokenize_word splits by longest match, not by total score:
\* no split of the word into vocabulary keys and unmatched spans holds a key
\* longer than the longest vocabulary token of the sequence returned
C20_LongestKeySplit ==
  (WordDone /\ outcome = "returned" /\ arg # <<>>)
    => \A cuts \in Splits(arg) :
         \A p \in KeySpans(arg, cuts) : p[2] - p[1] <= LongestToken(ret)

\* the whole word is a key and is returned, and cutting it gives a split of
\* higher total score
C20_Witness ==
  /\ WordDone /\ outcome = "returned"
  /\ Len(arg) >= 2
  /\ ret = <<arg>>
  /\ \E cuts \in Splits(arg) :
       /\ cuts # {}
       /\ KeySpans(arg, cuts) # {}
       /\ SplitScore(arg, cuts) > SeqScore(ret)

(***************************************************************************)
(* Ties, depth, spans                                                      *)
(***************************************************************************)
\* the text of length L that stands in word at offset s
TextAt(word, s, L) == SubSeq(word, s + 1, s + L)

\* C21: among the occurrences of the chosen length whose key has the chosen
\* (maximum) score, tokenize_word takes the one with the greatest start
\* offset: every occurrence of that length further right has a lower score
C21_TieBreakLast ==
  (WordDone /\ sel.found) =>
    LET L == Len(sel.candidate)
    IN \A s \in 0..(Len(arg) - L) :
         (TextAt(arg, s, L) \in DOMAIN tokens
            /\ tokens[TextAt(arg, s, L)] = tokens[sel.candidate])
           => s <= sel.start

\* a tie between two different keys, the one chosen standing after the other
C21_Witness ==
  /\ WordDone /\ sel.found
  /\ \E s \in 0..(Len(arg) - Len(sel.candidate)) :
       /\ s < sel.start
       /\ TextAt(arg, s, Len(sel.candidate)) \in DOMAIN tokens
       /\ TextAt(arg, s, Len(sel.candidate)) # sel.candidate
       /\ tokens[TextAt(arg, s, Len(sel.candidate))] = tokens[sel.candidate]

IsSuffix(p, q) == Len(p) <= Len(q) /\ SubSeq(q, Len(q) - Len(p) + 1, Len(q)) = p

\* the recursion depth: the activations below the one the caller entered
Depth == Len(stack) - 1

\* C22: tokenize_word terminates, whatever the store and the word: a call
\* that has begun returns.  While it runs, every activation but the first
\* has a text that is a prefix or a suffix of its caller's text and strictly
\* shorter, and the recursion depth is at most the number of characters of
\* the word; the value returned is the one of tokenize_word
C22_Termination ==
  /\ [](pc = "running" =>
          /\ Depth <= Len(arg)
          /\ stack[1].text = arg
          /\ \A i \in 2..Len(stack) :
               /\ Len(stack[i].text) < Len(stack[i - 1].text)
               /\ IF stack[i - 1].stage = "left"
                  THEN IsPrefix(stack[i].text, stack[i - 1].text)
                  ELSE IsSuffix(stack[i].text, stack[i - 1].text))
  /\ []((pc = "done" /\ outcome = "returned") => ret = tokenize_word(tokens, arg).val)
  /\ (pc = "running" ~> pc = "done")

\* the depth reaches the number of characters of a word of several characters
C22_Witness ==
  /\ pc = "running"
  /\ Len(arg) >= 2
  /\ Depth = Len(arg)
  /\ stack[Len(stack)].text = <<>>

(***************************************************************************)
(* Construction, continued                                                 *)
(***************************************************************************)
TabCount(line) == Cardinality({i \in 1..Len(line) : line[i] = "\t"})

\* C23: new_from_str splits a line at its first tab only: a key of the store
\* built is the text that stands before the first tab of some line and holds
\* no tab, and an input with a line of two or more tabs fails with
\* InvalidVocabularyInput, the text after the first tab being no integer
C23_FirstTabSplit ==
  NewFromStrDone =>
    LET ls == LinesOf(arg)
    IN /\ ret.ok =>
            \A k \in DOMAIN ret.tokens :
              /\ TabCount(k) = 0
              /\ \E i \in 1..Len(ls) : IsPrefix(Append(k, "\t"), ls[i])
       /\ (\E i \in 1..Len(ls) : TabCount(ls[i]) >= 2)
            => outcome = "InvalidVocabularyInput"

\* the only line is a, tab, b, tab, 1: what follows the last tab is a number
C23_Witness ==
  /\ NewFromStrDone
  /\ LinesOf(arg) = <<<<"a", "\t", "b", "\t", "1">>>>
  /\ ret = InvalidVocabularyInput

(***************************************************************************)
(* Scores at the lower limit                                               *)
(***************************************************************************)
\* the keys of length L that stand somewhere in word
KeysAt(word, L) ==
  {k \in DOMAIN tokens : Len(k) = L /\ \E s \in 0..Len(word) : OccursAt(k, word, s)}

\* the greatest length at which a key stands in word, 0 if there is none
LongestLen(word) == Max({0} \cup {L \in 1..Len(word) : KeysAt(word, L) # {}})

\* C24: a key whose score is isize::MIN is present all the same: when it is
\* the only key of the longest matching length, tokenize_word chooses it and
\* emits it; and every candidate that reaches the max-selection is a key of
\* the store, so the isize::MIN default is never what a candidate is ranked by
C24_MinScorePresent ==
  (WordDone /\ arg # <<>>) =>
    /\ \A k \in DOMAIN tokens :
         (tokens[k] = isize_MIN /\ KeysAt(arg, LongestLen(arg)) = {k})
           => /\ sel.found /\ sel.candidate = k
              /\ \E i \in 1..Len(ret) : ret[i] = k
    /\ \A L \in 1..Len(arg) :
         \A i \in 1..Len(matches(tokens, arg, L).val) :
           matches(tokens, arg, L).val[i].candidate \in DOMAIN tokens

\* the key of score isize::MIN is chosen although a shorter key of the word
\* has a higher score
C24_Witness ==
  /\ WordDone /\ sel.found
  /\ tokens[sel.candidate] = isize_MIN
  /\ KeysAt(arg, LongestLen(arg)) = {sel.candidate}
  /\ \E k \in DOMAIN tokens :
       /\ Len(k) < Len(sel.candidate) /\ tokens[k] > isize_MIN
       /\ \E s \in 0..Len(arg) : OccursAt(k, arg, s)
  /\ \E i \in 1..Len(ret) : ret[i] = sel.candidate

(***************************************************************************)
(* Segmentation                                                            *)
(***************************************************************************)
\* the offsets of a split in increasing order, 0 first and Len(word) last
Bounds(word, cuts) ==
  LET B == {0, Len(word)} \cup cuts
  IN [i \in 1..Cardinality(B) |->
        CHOOSE b \in B : Cardinality({x \in B : x < b}) = i - 1]

\* ts are the tokens of the split of word at cuts, span by span in order:
\* each is the text of its span and a key, or the unknown token
TokensOfSplit(ts, word, cuts) ==
  LET bs == Bounds(word, cuts)
  IN /\ Len(ts) = Len(bs) - 1
     /\ \A i \in 1..Len(ts) :
          \/ ts[i] = SubSeq(word, bs[i] + 1, bs[i + 1]) /\ ts[i] \in DOMAIN tokens
          \/ ts[i] = UNKNOWN_TOKEN

\* C25: the tokens tokenize_word returns for a word of n characters are, in
\* order, those of a split of the word into non-empty contiguous spans that
\* cover it: each token is a key equal to its span, or '<unk>'; there are at
\* most n tokens and the empty string is never one of them
C25_Segmentation ==
  (WordDone /\ outcome = "returned") =>
    /\ arg = <<>> => ret = <<>>
    /\ arg # <<>> => \E cuts \in Cuts(arg) : TokensOfSplit(ret, arg, cuts)
    /\ Len(ret) <= Len(arg)
    /\ \A i \in 1..Len(ret) : ret[i] # <<>>

\* three characters in three spans, a key and the unknown token among them,
\* under a store that holds the empty string
C25_Witness ==
  /\ WordDone
  /\ Len(arg) = 3 /\ Len(ret) = 3
  /\ <<>> \in DOMAIN tokens
  /\ \E i \in 1..3 : ret[i] = UNKNOWN_TOKEN
  /\ \E i \in 1..3 : ret[i] \in DOMAIN tokens

\* the text of the i-th span of the split of word at cuts
SpanOf(word, cuts, i) ==
  SubSeq(word, Bounds(word, cuts)[i] + 1, Bounds(word, cuts)[i + 1])

\* C26: when '<unk>' is not a key, every '<unk>' that tokenize_word returns
\* stands for a span in which no key (of one character or more, the only
\* keys that can stand in a text) occurs, and no two '<unk>' are neighbours
C26_UnknownSpans ==
  (WordDone /\ outcome = "returned" /\ arg # <<>> /\ UNKNOWN_TOKEN \notin DOMAIN tokens) =>
    /\ \A cuts \in Cuts(arg) :
         TokensOfSplit(ret, arg, cuts) =>
           \A i \in 1..Len(ret) :
             ret[i] = UNKNOWN_TOKEN => NothingMatches(SpanOf(arg, cuts, i))
    /\ \A i \in 1..(Len(ret) - 1) :
         ~(ret[i] = UNKNOWN_TOKEN /\ ret[i + 1] = UNKNOWN_TOKEN)

\* an '<unk>' for a span of two characters next to a key
C26_Witness ==
  /\ WordDone
  /\ Len(arg) = 3 /\ Len(ret) = 2
  /\ ret[1] \in DOMAIN tokens
  /\ ret[2] = UNKNOWN_TOKEN
  /\ TokensOfSplit(ret, arg, {1})

(***************************************************************************)
(* Words of a text                                                         *)
(***************************************************************************)
\* the tokens of a sentence, word by word: each word alone, prefixed and
\* lower-cased, through tokenize_word
SentenceTokens(sentence) ==
  <<SENTENCE_START_TOKEN>>
    \o WordTokens(WORD_BREAK_CHAR, unicode_words(sentence))
    \o <<SENTENCE_END_TOKEN>>

\* t stands somewhere in the text w
Within(t, w) == \E s \in 0..Len(w) : OccursAt(t, w, s)

\* the words of all the sentences of a text
AllWords(text) ==
  LET ss == unicode_sentences(text)
  IN UNION {{unicode_words(ss[i])[j] : j \in 1..Len(unicode_words(ss[i]))} :
              i \in 1..Len(ss)}

\* the tokens of a result, flat or by sentence
Emitted(f, r) ==
  IF f = "tokenize" THEN {r[i] : i \in 1..Len(r)}
  ELSE UNION {{r[i][j] : j \in 1..Len(r[i])} : i \in 1..Len(r)}

\* C27: in tokenize and tokenize_sentences the tokens of a word are those
\* of tokenize_word(prefix + lowercase(word)), whatever stands around the
\* word: the result is made of these, word by word, so equal words give equal
\* tokens; every key emitted stands inside one prefixed word, and a key that
\* covers two words is never emitted
C27_NoTokenSpansWords ==
  (pc = "done" /\ call \in {"tokenize", "tokenize_sentences"}) =>
    LET ss == unicode_sentences(arg)
        nested == [i \in 1..Len(ss) |-> SentenceTokens(ss[i])]
    IN /\ call = "tokenize_sentences" => ret = nested
       /\ call = "tokenize" => ret = ConcatFirst(nested, Len(nested))
       /\ \A t \in Emitted(call, ret) \cap DOMAIN tokens :
            \E w \in AllWords(arg) : Within(t, WORD_BREAK_CHAR \o to_lowercase(w))
       /\ \A t \in Emitted(call, ret) :
            /\ ~Within(<<" ">>, t)
            /\ \A w, v \in AllWords(arg) :
                 t # WORD_BREAK_CHAR \o to_lowercase(w) \o WORD_BREAK_CHAR \o to_lowercase(v)

\* the words a and b in one sentence, under a store that holds the keys of
\* the two words taken together in the three ways
C27_Witness ==
  /\ pc = "done" /\ call = "tokenize"
  /\ arg = <<"a", " ", "b">>
  /\ {<<"a", " ", "b">>, <<"a", "b">>,
      WORD_BREAK_CHAR \o <<"a">> \o WORD_BREAK_CHAR \o <<"b">>} \subseteq DOMAIN tokens
  /\ WORD_BREAK_CHAR \o <<"a">> \in DOMAIN tokens
  /\ ret[2] = WORD_BREAK_CHAR \o <<"a">>

(***************************************************************************)
(* Markers in the flat stream                                              *)
(***************************************************************************)
\* the positions of the token t in the sequence r
PositionsOf(t, r) == {i \in 1..Len(r) : r[i] = t}

\* the positions of the two markers in r
MarkerPositions(r) ==
  PositionsOf(SENTENCE_START_TOKEN, r) \cup PositionsOf(SENTENCE_END_TOKEN, r)

\* the last marker before position i of r is a start marker
OpenBefore(r, i) ==
  LET before == {j \in MarkerPositions(r) : j < i}
  IN before # {} /\ r[Max(before)] = SENTENCE_START_TOKEN

\* the first marker after position i of r is an end marker
ClosedAfter(r, i) ==
  LET after == {j \in MarkerPositions(r) : j > i}
  IN after # {} /\ r[Min(after)] = SENTENCE_END_TOKEN

\* C28: in tokenize(text), for a text of k sentences, '<s>' and '</s>' each
\* occur k times and alternate, the first token being '<s>' and the last
\* '</s>'; every other token lies between a '<s>' and the '</s>' that
\* closes it, and no '<s>' follows a '<s>' without a '</s>' between them
C28_MarkerOrdering ==
  (pc = "done" /\ call = "tokenize") =>
    LET k == Len(unicode_sentences(arg))
        starts == PositionsOf(SENTENCE_START_TOKEN, ret)
        ends == PositionsOf(SENTENCE_END_TOKEN, ret)
    IN /\ Cardinality(starts) = k
       /\ Cardinality(ends) = k
       /\ k = 0 => ret = <<>>
       /\ k > 0 => ret[1] = SENTENCE_START_TOKEN /\ ret[Len(ret)] = SENTENCE_END_TOKEN
       /\ \A i \in starts : ClosedAfter(ret, i)
       /\ \A i \in ends : OpenBefore(ret, i)
       /\ \A i \in ends : LET after == {j \in MarkerPositions(ret) : j > i}
                          IN after # {} => ret[Min(after)] = SENTENCE_START_TOKEN
       /\ \A i \in (1..Len(ret)) \ (starts \cup ends) :
            OpenBefore(ret, i) /\ ClosedAfter(ret, i)

\* two sentences, the second being the start marker as written in the text,
\* under a store that holds both markers as keys
C28_Witness ==
  /\ pc = "done" /\ call = "tokenize"
  /\ arg = <<"a", "!">> \o SENTENCE_START_TOKEN
  /\ {SENTENCE_START_TOKEN, SENTENCE_END_TOKEN, <<"s">>} \subseteq DOMAIN tokens
  /\ Len(unicode_sentences(arg)) = 2
  /\ \E i \in 1..Len(ret) : ret[i] = <<"s">>

(***************************************************************************)
(* Duplicate tokens                                                        *)
(***************************************************************************)
\* the lines of ls that write the token k
LinesWriting(ls, k) == {i \in 1..Len(ls) : TokenOf(ls[i]) = k}

\* C29: when a token is written by several lines of an input to new_from_str
\* whose lines are all well formed, construction succeeds, the store holds
\* the token once, so fewer keys than there are lines, and its score is the
\* one of the last of these lines, whatever the earlier ones wrote
C29_DuplicateTokens ==
  NewFromStrDone =>
    \A ls \in {LinesOf(arg)} :
      (\A n \in 1..Len(ls) : WellFormed(ls[n])) =>
        \A i, j \in 1..Len(ls) :
          (/\ i < j
           /\ TokenOf(ls[i]) = TokenOf(ls[j])
           /\ j = Max(LinesWriting(ls, TokenOf(ls[j]))))
            => /\ ret.ok /\ outcome = "Ok"
               /\ TokenOf(ls[j]) \in DOMAIN ret.tokens
               /\ Cardinality(DOMAIN ret.tokens) < Len(ls)
               /\ Cardinality(DOMAIN ret.tokens)
                    = Cardinality({TokenOf(ls[n]) : n \in 1..Len(ls)})
               /\ Decimal(ret.tokens[TokenOf(ls[j])]) = Canonical(ScoreOf(ls[j]))

\* the token a written twice, with the score 1 and then with the score -1
C29_Witness ==
  /\ NewFromStrDone
  /\ Len(LinesOf(arg)) = 2
  /\ \A n \in 1..2 : WellFormed(LinesOf(arg)[n])
  /\ TokenOf(LinesOf(arg)[1]) = <<"a">> /\ ScoreOf(LinesOf(arg)[1]) = <<"1">>
  /\ TokenOf(LinesOf(arg)[2]) = <<"a">> /\ ScoreOf(LinesOf(arg)[2]) = <<"-", "1">>
  /\ ret.ok
  /\ DOMAIN ret.tokens = {<<"a">>}
  /\ ret.tokens[<<"a">>] = -1

(***************************************************************************)
(* Letter case                                                             *)
(***************************************************************************)
\* the characters that lower-casing changes
Cased == {"A"}

\* the character c in either case
CasesOf(c) == IF c \in {"a", "A"} THEN {"a", "A"} ELSE {c}

RECURSIVE SameUpToCase(_)
\* the texts that differ from x in letter case only, x among them
SameUpToCase(x) ==
  IF x = <<>> THEN {<<>>}
  ELSE {<<c>> \o y : c \in CasesOf(Head(x)), y \in SameUpToCase(Tail(x))}

\* the indexes at which unicode_sentences cuts the text
SentenceCuts(text) == {j \in 2..Len(text) : sentence_bound(text, j)}

\* the result of the call f on the text y
ResultOf(f, y) ==
  IF f = "tokenize" THEN tokenize(tokens, y).val ELSE tokenize_sentences(tokens, y).val

CaseDone == pc = "done" /\ call \in {"tokenize", "tokenize_sentences"}

====
